---- MODULE Spec2Model ----
(***************************************************************************)
(* A model of the llmreader HTTP server (src/server.py): the Auth Gate     *)
(* (login rate limit, session cookie, middleware), the upload pipeline and *)
(* Book Store cache, the Tag Manager, the Highlight Store and the reader.  *)
(* Strings are sequences of one-character strings, so that trimming,       *)
(* lowercasing, splitting and sanitising are computed, not assumed.        *)
(***************************************************************************)
EXTENDS Integers, Sequences, FiniteSets, TLC

VARIABLES
    now,            \* time.time(), in whole seconds
    ticks,          \* how many times the clock has advanced (bounds the model)
    LOGIN_ATTEMPTS, \* server.py:41  IP -> list of timestamps
    failLog,        \* history: every 401 answered, per IP, never pruned
    loginResp,      \* the response of the last POST /login
    jar,            \* the session cookie the browser holds
    authResp,       \* the response of the last request through auth_middleware
    dirs,           \* BOOKS_DIR: book directory -> Absent | [pkl |-> snapshot]
    tempFiles,      \* BOOKS_DIR: temp upload path -> Absent | content
    cache,          \* load_book_cached's lru_cache, least recently used first
    up,             \* upload requests in progress
    uploadResp,     \* the response of the last finished POST /upload, per request
    libResp,        \* the response of the last library/tag/read request
    hlFile,         \* highlights.json: the Highlight Document
    nextUuid,       \* how many uuid4() values have been drawn
    hlReq,          \* PUT /api/highlights requests waiting for their body
    hlResp,         \* the response of the last highlight request
    hlTemp,         \* highlights.json.tmp: what has been written to it
    hlSave          \* the save_highlights call in progress, if any

authVars == <<now, ticks, LOGIN_ATTEMPTS, failLog, loginResp, jar, authResp>>
libVars  == <<dirs, tempFiles, cache, up, uploadResp, libResp>>
hlVars   == <<hlFile, nextUuid, hlReq, hlResp, hlTemp, hlSave>>
vars     == <<authVars, libVars, hlVars>>

\* Python's None
None == [none |-> TRUE]

\* no response yet
NoResp == [op |-> "none", status |-> 0]

----------------------------------------------------------------------------
(* Sequences and strings *)

Range(s) == {s[i] : i \in DOMAIN s}

SeqsUpTo(S, n) == UNION {[1..k -> S] : k \in 0..n}

RECURSIVE Rep(_, _)
Rep(c, n) == IF n = 0 THEN <<>> ELSE <<c>> \o Rep(c, n - 1)

StartsWith(s, p) == Len(s) >= Len(p) /\ SubSeq(s, 1, Len(p)) = p

\* the index of the first / last occurrence of c in s, 0 when there is none
FirstIndex(s, c) ==
    IF \E i \in DOMAIN s : s[i] = c
    THEN CHOOSE i \in DOMAIN s : s[i] = c /\ \A j \in 1..(i - 1) : s[j] # c
    ELSE 0

LastIndex(s, c) ==
    IF \E i \in DOMAIN s : s[i] = c
    THEN CHOOSE i \in DOMAIN s : s[i] = c /\ \A j \in (i + 1)..Len(s) : s[j] # c
    ELSE 0

UpperChars == {"A", "B", "E", "F", "P", "S", "U"}
LowerChars == {"a", "b", "c", "d", "e", "f", "i", "p", "s", "t", "u", "x"}
Digits     == {"1", "2"}
SpaceChars == {" "}

\* str.lower() on one character
LowerChar(c) ==
    CASE c = "A" -> "a" [] c = "B" -> "b" [] c = "E" -> "e" [] c = "F" -> "f"
      [] c = "P" -> "p" [] c = "S" -> "s" [] c = "U" -> "u"
      [] OTHER -> c

\* str.lower()
lower(s) == [i \in DOMAIN s |-> LowerChar(s[i])]

\* str.strip(): drop the leading and trailing characters that are in chars
strip(s, chars) ==
    LET keep == {i \in DOMAIN s : s[i] \notin chars}
    IN  IF keep = {} THEN <<>>
        ELSE LET lo == CHOOSE i \in keep : \A j \in keep : i <= j
                 hi == CHOOSE i \in keep : \A j \in keep : j <= i
             IN  SubSeq(s, lo, hi)

\* str.isalnum() on one character
isalnum(c) == c \in UpperChars \cup LowerChars \cup Digits

\* the characters of the model in code point order, for sorted()
Ascii == <<" ", "!", "&", "-", ".", "/", "1", "2", "=", "?", "A", "B", "E", "F",
           "P", "S", "U", "_", "a", "b", "c", "d", "e", "f", "i", "p", "s", "t",
           "u", "x">>
CharRank(c) == FirstIndex(Ascii, c)

RECURSIVE StrLess(_, _)
StrLess(a, b) ==
    IF b = <<>> THEN FALSE
    ELSE IF a = <<>> THEN TRUE
    ELSE IF Head(a) = Head(b) THEN StrLess(Tail(a), Tail(b))
    ELSE CharRank(Head(a)) < CharRank(Head(b))

----------------------------------------------------------------------------
(* Authentication configuration, server.py:34-43 *)

MAX_ATTEMPTS == 5
RATE_LIMIT_WINDOW == 15 * 60
SESSION_DURATION == 30 * 24 * 60 * 60

\* bounds of the model
MaxTicks == 3
MaxFailures == 7
IPs == {"ip1", "ip2"}

\* the clock advances between requests by one second or by one second less
\* than a whole window / session lifetime, so that both sides of each
\* boundary are reached
LoginSteps   == {1, RATE_LIMIT_WINDOW - 1}
SessionSteps == {1, SESSION_DURATION - 1}

Tick(steps) ==
    /\ ticks < MaxTicks
    /\ \E d \in steps : now' = now + d
    /\ ticks' = ticks + 1

(* Session cookies: URLSafeTimedSerializer(SECRET_KEY) signs the payload
   {"authenticated": True, "timestamp": ...} together with the time of
   signing. A token is the key that signed it and that time. *)
NoCookie == None
ServerKey == "SECRET_KEY"
OtherKey  == "forged"

create_auth_cookie(t) == [key |-> ServerKey, ts |-> t]

\* loads(cookie, max_age=...) raises BadSignature for a wrong signature and
\* SignatureExpired when age > max_age or age < 0

verify_cookie(cookie, t) ==
    /\ cookie # NoCookie
    /\ cookie.key = ServerKey
    /\ t - cookie.ts <= SESSION_DURATION
    /\ t - cookie.ts >= 0

\* the attempts of the list that check_rate_limit keeps: [t for t in attempts
\* if now - t < RATE_LIMIT_WINDOW]
PrunedInclusive(attempts, t) ==
    LET Recent(a) == t - a <= RATE_LIMIT_WINDOW IN SelectSeq(attempts, Recent)

Pruned(attempts, t) ==
    LET Recent(a) == t - a < RATE_LIMIT_WINDOW IN SelectSeq(attempts, Recent)

\* check_rate_limit returns len(attempts) < MAX_ATTEMPTS
RateAllowed(attempts) == Len(attempts) < MAX_ATTEMPTS

\* safe_next = next if next.startswith("/") else "/"
safe_next(next) == IF StartsWith(next, <<"/">>) THEN next ELSE <<"/">>

(* POST /login. The handler reads the clock in check_rate_limit and again,
   within the same second, in record_failed_attempt / create_auth_cookie. *)
login_submit(ip, passwordOk, next) ==
    LET attempts == Pruned(LOGIN_ATTEMPTS[ip], now)
        later    == now
    IN  /\ UNCHANGED <<now, ticks>>
        /\ IF ~RateAllowed(attempts)
           THEN /\ LOGIN_ATTEMPTS' = [LOGIN_ATTEMPTS EXCEPT ![ip] = attempts]
                /\ loginResp' = [op |-> "login", ip |-> ip, at |-> now, passwordOk |-> passwordOk,
                                 status |-> 429, location |-> <<>>,
                                 cookie |-> NoCookie]
                /\ UNCHANGED failLog
           ELSE IF ~passwordOk
           THEN /\ LOGIN_ATTEMPTS' =
                       [LOGIN_ATTEMPTS EXCEPT ![ip] = Append(attempts, later)]
                /\ failLog' = [failLog EXCEPT ![ip] = Append(@, later)]
                /\ loginResp' = [op |-> "login", ip |-> ip, at |-> now, passwordOk |-> passwordOk,
                                 status |-> 401, location |-> <<>>,
                                 cookie |-> NoCookie]
           ELSE /\ LOGIN_ATTEMPTS' = [LOGIN_ATTEMPTS EXCEPT ![ip] = attempts]
                /\ loginResp' = [op |-> "login", ip |-> ip, at |-> now, passwordOk |-> passwordOk,
                                 status |-> 302, location |-> safe_next(next),
                                 cookie |-> create_auth_cookie(later)]
                /\ UNCHANGED failLog

----------------------------------------------------------------------------
(* File names, server.py:171-179 and 469-480 *)

Sep == "/"
Dot == "."

\* os.path.basename
basename(p) == SubSeq(p, LastIndex(p, Sep) + 1, Len(p))

\* os.path.splitext: the extension starts at the last dot of the last path
\* component, unless only dots precede it in that component
SplitAt(p) ==
    LET sepIndex == LastIndex(p, Sep)
        dotIndex == LastIndex(p, Dot)
    IN  IF dotIndex > sepIndex
           /\ \E i \in (sepIndex + 1)..(dotIndex - 1) : p[i] # Dot
        THEN dotIndex
        ELSE Len(p) + 1

splitext_root(p) == SubSeq(p, 1, SplitAt(p) - 1)
splitext_ext(p)  == SubSeq(p, SplitAt(p), Len(p))

EpubExt == <<".", "e", "p", "u", "b">>
PdfExt  == <<".", "p", "d", "f">>
TxtExt  == <<".", "t", "x", "t">>
SupportedExts_txt == {EpubExt, PdfExt, TxtExt}
SupportedExts == {EpubExt, PdfExt}

\* ext = os.path.splitext(file.filename)[1].lower()
upload_ext(filename) == lower(splitext_ext(filename))

SafeChar(c) == isalnum(c) \/ c \in {"-", "_", "."}

_sanitize_filename(filename, fallback_ext) ==
    LET base  == basename(filename)
        safe0 == strip(SelectSeq(base, SafeChar), {Dot})
        safe1 == IF safe0 = <<>> THEN <<"u", "p", "l", "o", "a", "d">> \o fallback_ext
                 ELSE safe0
    IN  IF splitext_ext(safe1) = <<>> THEN safe1 \o fallback_ext ELSE safe1

DataSuffix == <<"_", "d", "a", "t", "a">>

safe_name_of(filename) == _sanitize_filename(filename, upload_ext(filename))
out_dir_of(filename) == splitext_root(safe_name_of(filename)) \o DataSuffix
temp_path_of(filename) == safe_name_of(filename)

\* the file names the model uploads
FileAEpub  == <<"a", ".", "e", "p", "u", "b">>
FileAUpper == <<"a", ".", "E", "P", "U", "B">>
FileAPdf   == <<"a", ".", "p", "d", "f">>
FileBEpub  == <<"d", "/", "b", " ", ".", "e", "p", "u", "b">>
FileTxt    == <<"a", ".", "t", "x", "t">>
FileNoExt  == <<"a">>
FileDotOnly == <<".", "e", "p", "u", "b">>
FileEmpty  == <<>>

GoodFiles == {FileAEpub, FileAUpper, FileAPdf, FileBEpub}
BadFiles  == {FileTxt, FileNoExt, FileDotOnly, FileEmpty}

BookDirs == {out_dir_of(f) : f \in GoodFiles}
TempPaths == {temp_path_of(f) : f \in GoodFiles}
DirA == out_dir_of(FileAEpub)
DirB == out_dir_of(FileBEpub)
NoSuchBook == <<"x">>
BookIds == BookDirs \cup {NoSuchBook}

----------------------------------------------------------------------------
(* The Book Store: snapshots on disk and load_book_cached, server.py:298-319 *)

\* a path that does not exist; a book directory without book.pkl
Absent == [absent |-> TRUE]
NoPkl  == [nopkl |-> TRUE]

\* a converted book: which upload it came from, its tags, its spine length
Book(src, tags, spine) == [src |-> src, tags |-> tags, spine |-> spine]

\* os.path.exists(os.path.join(BOOKS_DIR, folder_name, "book.pkl")), then
\* pickle.load
FromDisk(d, folder_name) ==
    IF folder_name \in DOMAIN d /\ d[folder_name] # Absent
       /\ d[folder_name].pkl # NoPkl
    THEN d[folder_name].pkl
    ELSE None

CACHE_MAXSIZE == 10

CacheKeys(c) == {c[i].key : i \in DOMAIN c}
CacheEntry(c, k) == c[CHOOSE i \in DOMAIN c : c[i].key = k]

\* what load_book_cached(folder_name) returns: the cached value, a miss
\* included, else what is on disk
load_book_cached(c, d, folder_name) ==
    IF folder_name \in CacheKeys(c) THEN CacheEntry(c, folder_name).val
    ELSE FromDisk(d, folder_name)

\* the cache after the call: the key becomes the most recently used, and the
\* least recently used entry is evicted beyond maxsize
cache_after(c, d, folder_name) ==
    LET NotKey(e) == e.key # folder_name
        entry == [key |-> folder_name, val |-> load_book_cached(c, d, folder_name)]
        moved == Append(SelectSeq(c, NotKey), entry)
    IN  IF Len(moved) > CACHE_MAXSIZE THEN Tail(moved) ELSE moved

----------------------------------------------------------------------------
(* Upload, server.py:461-510. The handler runs in three steps: up to the
   first `await file.read()` (the checks and the open of the temp file), the
   write of the chunk read, and after the last read the conversion, the
   snapshot, the cleanup and the response. *)

UpReqs == {"p1", "p2"}

\* what a client uploads: the bytes (by name) and whether they are a valid book
Contents == {[id |-> "x", valid |-> TRUE], [id |-> "z", valid |-> FALSE]}
Empty == "empty"
Mixed == "mixed"

Detail400NoFile == "No file provided"
Detail400Type   == "Only .epub or .pdf files are supported"
Detail409       == "Book already exists in library"
Detail500       == "Failed to process upload"

\* os.path.exists(out_dir)
DirExists(d, out_dir) == d[out_dir] # Absent

\* open(temp_path, "wb"): creates the file or truncates it; the request holds
\* a descriptor of that file from then on
OpenTemp(t, r, temp_path) ==
    [t EXCEPT ![temp_path] =
        IF @ = Absent THEN [data |-> Empty, holders |-> {r}]
        ELSE [data |-> Empty, holders |-> @.holders \cup {r}]]

upload_start(r, filename, content) ==
    /\ up[r] = None
    /\ IF filename = <<>>
       THEN /\ uploadResp' = [uploadResp EXCEPT ![r] =
                   [op |-> "upload", status |-> 400, detail |-> Detail400NoFile,
                    filename |-> filename]]
            /\ UNCHANGED <<up, tempFiles>>
       ELSE IF upload_ext(filename) \notin SupportedExts
       THEN /\ uploadResp' = [uploadResp EXCEPT ![r] =
                   [op |-> "upload", status |-> 400, detail |-> Detail400Type,
                    filename |-> filename]]
            /\ UNCHANGED <<up, tempFiles>>
       ELSE IF DirExists(dirs, out_dir_of(filename))
       THEN /\ uploadResp' = [uploadResp EXCEPT ![r] =
                   [op |-> "upload", status |-> 409, detail |-> Detail409,
                    filename |-> filename]]
            /\ UNCHANGED <<up, tempFiles>>
       ELSE /\ tempFiles' = OpenTemp(tempFiles, r, temp_path_of(filename))
            /\ up' = [up EXCEPT ![r] =
                   [filename |-> filename, content |-> content, pc |-> "open",
                    ext |-> upload_ext(filename),
                    out_dir |-> out_dir_of(filename),
                    temp_path |-> temp_path_of(filename)]]
            /\ UNCHANGED uploadResp
    /\ UNCHANGED <<dirs, cache>>

\* buffer.write(chunk): the bytes land in the file the descriptor is of, which
\* is the file at temp_path unless that was removed since
WriteTemp(t, r, temp_path, content) ==
    IF t[temp_path] # Absent /\ r \in t[temp_path].holders
    THEN [t EXCEPT ![temp_path].data =
             IF @ \in {Empty, content.id} THEN content.id ELSE Mixed]
    ELSE t

upload_write(r) ==
    /\ up[r] # None /\ up[r].pc = "open"
    /\ tempFiles' = WriteTemp(tempFiles, r, up[r].temp_path, up[r].content)
    /\ up' = [up EXCEPT ![r].pc = "written"]
    /\ UNCHANGED <<dirs, cache, uploadResp>>

\* process_epub / process_pdf (reader3): reads the file at temp_path and
\* converts it into out_dir; raises when there is no such file or it is no
\* valid book
Converts(t, temp_path) ==
    /\ t[temp_path] # Absent
    /\ \E c \in Contents : c.valid /\ c.id = t[temp_path].data

\* save_to_pickle(book_obj, out_dir) (reader3): writes out_dir/book.pkl
save_to_pickle(d, book, out_dir) == [d EXCEPT ![out_dir] = [pkl |-> book]]

\* the directory a failed conversion leaves behind: what was there, or a
\* directory without a snapshot
PartialDir(d, out_dir, partial) ==
    IF partial THEN [d EXCEPT ![out_dir] = [pkl |-> NoPkl]] ELSE d

\* if os.path.exists(out_dir): shutil.rmtree(out_dir, ignore_errors=True)
rmtree_kept(d, out_dir) == d
rmtree(d, out_dir) == [d EXCEPT ![out_dir] = Absent]

\* finally: if os.path.exists(temp_path): os.remove(temp_path)
RemoveTemp(t, temp_path) == [t EXCEPT ![temp_path] = Absent]

\* load_book_cached.cache_clear()
cache_kept == cache
cache_cleared == <<>>

\* buffer.write(chunk) or file.read raises: except and finally run
upload_write_failed(r) ==
    /\ up[r] # None /\ up[r].pc = "open"
    /\ up' = [up EXCEPT ![r] = None]
    /\ tempFiles' = RemoveTemp(tempFiles, up[r].temp_path)
    /\ dirs' = rmtree(dirs, up[r].out_dir)
    /\ uploadResp' = [uploadResp EXCEPT ![r] =
           [op |-> "upload", status |-> 500, detail |-> Detail500,
            filename |-> up[r].filename]]
    /\ UNCHANGED cache

upload_finish(r, spine, partial, fault) ==
    LET req == up[r]
    IN  /\ req # None /\ req.pc = "written"
        /\ up' = [up EXCEPT ![r] = None]
        /\ tempFiles' = RemoveTemp(tempFiles, req.temp_path)
        /\ IF Converts(tempFiles, req.temp_path) /\ fault = "none"
           THEN LET book == Book(tempFiles[req.temp_path].data, <<>>, spine)
                IN  /\ dirs' = save_to_pickle(dirs, book, req.out_dir)
                    /\ cache' = cache_cleared
                    /\ uploadResp' = [uploadResp EXCEPT ![r] =
                           [op |-> "upload", status |-> 200, detail |-> "",
                            filename |-> req.filename, book_id |-> req.out_dir,
                            title |-> book.src, chapters |-> book.spine]]
           ELSE /\ dirs' = rmtree(PartialDir(dirs, req.out_dir, partial), req.out_dir)
                /\ UNCHANGED cache
                /\ uploadResp' = [uploadResp EXCEPT ![r] =
                       [op |-> "upload", status |-> 500, detail |-> Detail500,
                        filename |-> req.filename]]

----------------------------------------------------------------------------
(* The library listing and the tag API, server.py:383-410 and 532-542 *)

RECURSIVE SetToSeq(_)
SetToSeq(S) ==
    IF S = {} THEN <<>>
    ELSE LET x == CHOOSE y \in S : \A z \in S : z = y \/ StrLess(y, z)
         IN  <<x>> \o SetToSeq(S \ {x})

\* os.listdir(BOOKS_DIR), the items that end in "_data" and are directories
ListedDirs(d) == SetToSeq({k \in DOMAIN d : d[k] # Absent})

BookEntry(item, book) ==
    [id |-> item, title |-> book.src, chapters |-> book.spine, tags |-> book.tags]

\* the loop of library_view: the books, and the cache after the loads
RECURSIVE ListBooks(_, _, _)
ListBooks(items, c, d) ==
    IF items = <<>> THEN [books |-> <<>>, cache |-> c]
    ELSE LET item == Head(items)
             book == load_book_cached(c, d, item)
             rest == ListBooks(Tail(items), cache_after(c, d, item), d)
         IN  [books |-> (IF book # None THEN <<BookEntry(item, book)>> ELSE <<>>)
                        \o rest.books,
              cache |-> rest.cache]

library_view ==
    LET out == ListBooks(ListedDirs(dirs), cache, dirs)
    IN  /\ libResp' = [op |-> "list", status |-> 200, books |-> out.books]
        /\ cache' = out.cache
        /\ UNCHANGED <<dirs, tempFiles, up, uploadResp>>

\* GET /api/books/{book_id}/tags
get_book_tags(book_id) ==
    LET book == load_book_cached(cache, dirs, book_id)
    IN  /\ cache' = cache_after(cache, dirs, book_id)
        /\ libResp' = IF book = None
                      THEN [op |-> "tags", status |-> 404, book |-> book_id]
                      ELSE [op |-> "tags", status |-> 200, book |-> book_id,
                            tags |-> book.tags]
        /\ UNCHANGED <<dirs, tempFiles, up, uploadResp>>

----------------------------------------------------------------------------
(* The Tag Manager, server.py:545-587 *)

MAX_TAG_LEN == 30

\* tag_clean = str(tag).strip().lower()
TagClean_nolower(tag) == strip(tag, SpaceChars)
TagClean(tag) == lower(strip(tag, SpaceChars))

\* if tag_clean and len(tag_clean) <= 30
TagKept(tag_clean) == tag_clean # <<>> /\ Len(tag_clean) <= MAX_TAG_LEN

CleanTags(tags_input) ==
    SelectSeq([i \in DOMAIN tags_input |-> TagClean(tags_input[i])], TagKept)

\* remove duplicates while preserving order
RECURSIVE UniqueTags(_)
UniqueTags(tags) ==
    IF tags = <<>> THEN <<>>
    ELSE LET seen == UniqueTags(SubSeq(tags, 1, Len(tags) - 1))
             tag  == tags[Len(tags)]
         IN  IF tag \in Range(seen) THEN seen ELSE Append(seen, tag)

NormalizeTags(tags_input) == UniqueTags(CleanTags(tags_input))

\* book.metadata.tags = unique_tags, on the object the cache holds
SetCachedTags(c, book_id, tags) ==
    [i \in DOMAIN c |-> IF c[i].key = book_id
                        THEN [c[i] EXCEPT !.val.tags = tags]
                        ELSE c[i]]

(* PUT /api/books/{book_id}/tags. save_to_pickle raises when the book
   directory is gone or the write fails (fault). *)
update_book_tags(book_id, tags_input, fault) ==
    LET book == load_book_cached(cache, dirs, book_id)
        unique_tags == NormalizeTags(tags_input)
        loaded == cache_after(cache, dirs, book_id)
    IN  IF book = None
        THEN /\ cache' = loaded
             /\ libResp' = [op |-> "set_tags", status |-> 404, book |-> book_id]
             /\ UNCHANGED <<dirs, tempFiles, up, uploadResp>>
        ELSE IF fault = "none" /\ DirExists(dirs, book_id)
        THEN /\ dirs' = save_to_pickle(dirs, [book EXCEPT !.tags = unique_tags], book_id)
             /\ cache' = cache_cleared
             /\ libResp' = [op |-> "set_tags", status |-> 200, book |-> book_id,
                            input |-> tags_input, tags |-> unique_tags]
             /\ UNCHANGED <<tempFiles, up, uploadResp>>
        ELSE /\ cache' = SetCachedTags(loaded, book_id, unique_tags)
             /\ libResp' = [op |-> "set_tags", status |-> 500, book |-> book_id]
             /\ UNCHANGED <<dirs, tempFiles, up, uploadResp>>

----------------------------------------------------------------------------
(* The reader, server.py:417-440 *)

Null == [null |-> TRUE]
Idx(n) == [null |-> FALSE, idx |-> n]

\* not (chapter_index < 0 or chapter_index >= len(book.spine))
ChapterInRange_inclusive(chapter_index, spine) ==
    chapter_index >= 0 /\ chapter_index <= spine
ChapterInRange(chapter_index, spine) ==
    chapter_index >= 0 /\ chapter_index < spine

prev_idx(chapter_index) ==
    IF chapter_index > 0 THEN Idx(chapter_index - 1) ELSE Null

next_idx(chapter_index, spine) ==
    IF chapter_index < spine - 1 THEN Idx(chapter_index + 1) ELSE Null

read_chapter(book_id, chapter_index) ==
    LET book == load_book_cached(cache, dirs, book_id)
    IN  /\ cache' = cache_after(cache, dirs, book_id)
        /\ libResp' =
               IF book = None
               THEN [op |-> "read", status |-> 404, detail |-> "Book not found",
                     book |-> book_id, chapter_index |-> chapter_index]
               ELSE IF ~ChapterInRange(chapter_index, book.spine)
               THEN [op |-> "read", status |-> 404, detail |-> "Chapter not found",
                     book |-> book_id, chapter_index |-> chapter_index]
               ELSE [op |-> "read", status |-> 200, detail |-> "",
                     book |-> book_id, chapter_index |-> chapter_index,
                     prev_idx |-> prev_idx(chapter_index),
                     next_idx |-> next_idx(chapter_index, book.spine)]
        /\ UNCHANGED <<dirs, tempFiles, up, uploadResp>>

----------------------------------------------------------------------------
(* Image serving, server.py:442-458. A path is the sequence of its
   components, relative to BOOKS_DIR; above BOOKS_DIR it begins with "..". *)

ImagesName == <<"i", "m", "a", "g", "e", "s">>
DotDot == <<".", ".">>
DotName == <<".">>
Pic == <<"p">>

\* the path the file system resolves: "" and "." name the directory itself,
\* ".." its parent
RECURSIVE ResolveFrom(_, _)
ResolveFrom(at, parts) ==
    IF parts = <<>> THEN at
    ELSE LET part == Head(parts)
             next == IF part = <<>> \/ part = DotName THEN at
                     ELSE IF part # DotDot THEN Append(at, part)
                     ELSE IF at = <<>> \/ at[Len(at)] = DotDot THEN Append(at, DotDot)
                     ELSE SubSeq(at, 1, Len(at) - 1)
         IN  ResolveFrom(next, Tail(parts))
Resolve(parts) == ResolveFrom(<<>>, parts)

\* the files on disk: a picture in each book's images directory and one in
\* an images directory beside the library
ImageFiles ==
    {<<DirA, ImagesName, Pic>>, <<DirB, ImagesName, Pic>>, <<DotDot, ImagesName, Pic>>}
ImageDirectories ==
    {SubSeq(f, 1, n) : f \in ImageFiles, n \in 0..2} \cup {<<DotDot>>}

\* img_path = os.path.join(BOOKS_DIR, safe_book_id, "images", safe_image_name)
img_path(book_id, image_name) == <<basename(book_id), ImagesName, basename(image_name)>>

\* os.path.exists(img_path)
PathExists(path) == Resolve(path) \in ImageFiles \cup ImageDirectories

\* FileResponse(img_path) sends a regular file and raises for a directory
serve_image(book_id, image_name) ==
    LET path == img_path(book_id, image_name)
    IN  /\ libResp' =
               IF ~PathExists(path)
               THEN [op |-> "image", status |-> 404, book_id |-> book_id,
                     image_name |-> image_name, path |-> path]
               ELSE [op |-> "image",
                     status |-> IF Resolve(path) \in ImageFiles THEN 200 ELSE 500,
                     book_id |-> book_id, image_name |-> image_name, path |-> path]
        /\ UNCHANGED <<dirs, tempFiles, cache, up, uploadResp>>

----------------------------------------------------------------------------
(* The Highlight Store, server.py:184-222 *)

\* the document is a dict, in insertion order: book id -> {"highlights": [...]}
EmptyDocument == <<>>

\* highlights.json: missing, or holding a document
MissingFile == [exists |-> FALSE, doc |-> EmptyDocument]

\* load_highlights: {} when the file is missing
load_highlights(file) == IF ~file.exists THEN EmptyDocument ELSE file.doc

DocBooks(doc) == {doc[i].book : i \in DOMAIN doc}
DocIndex(doc, book_id) == CHOOSE i \in DOMAIN doc : doc[i].book = book_id

\* highlights.get(book_id, {}).get('highlights', [])
BookHighlights(doc, book_id) ==
    IF book_id \in DocBooks(doc) THEN doc[DocIndex(doc, book_id)].highlights
    ELSE <<>>

\* every (entry, index) position of the document
Positions(doc) ==
    UNION {{<<i, j>> : j \in 1..Len(doc[i].highlights)} : i \in DOMAIN doc}

\* scan order: for book_id, book_data in highlights.items(): for idx, ...
Before(p, q) == p[1] < q[1] \/ (p[1] = q[1] /\ p[2] < q[2])

Hits(doc, highlight_id) ==
    {p \in Positions(doc) : doc[p[1]].highlights[p[2]].id = highlight_id}

NotFound == [book |-> None, idx |-> 0]

\* get_highlight_by_id: the first match of the scan, as (book_id, index);
\* idx is the 1-based position of Python's 0-based index
get_highlight_by_id(doc, highlight_id) ==
    LET hits == Hits(doc, highlight_id)
    IN  IF hits = {} THEN NotFound
        ELSE LET p == CHOOSE h \in hits : \A o \in hits : o = h \/ Before(h, o)
             IN  [book |-> doc[p[1]].book, idx |-> p[2]]

\* every highlight of the document, in scan order of books
AllIds(doc) == {doc[p[1]].highlights[p[2]].id : p \in Positions(doc)}

\* highlights.json.tmp: missing, or the text written to it so far
NoTemp == [exists |-> FALSE, text |-> <<>>]

\* save_highlights: json.dump to highlights.json.tmp, then os.replace
save_highlights(doc) == [exists |-> TRUE, doc |-> doc]

MaxUuids == 3
HlReqs == {"u1"}

\* the JSON bodies of POST /api/books/{id}/highlights
HlBodies == {[text |-> "t", chapter_index |-> 0, note |-> ""],
             [text |-> "t", chapter_index |-> 1, note |-> "n1"]}
\* the JSON bodies of PUT /api/highlights/{id}; NoNote has no "note" key
NoNote == [has |-> FALSE, note |-> ""]
NoteBodies == {NoNote, [has |-> TRUE, note |-> "n2"]}

\* str(uuid.uuid4()): a value never drawn before
uuid4 == nextUuid + 1

NewHighlight(body) ==
    [id |-> uuid4, text |-> body.text, chapter_index |-> body.chapter_index,
     timestamp |-> now, note |-> body.note, color |-> "yellow"]

\* highlights[book_id]["highlights"].append(highlight), after
\* if book_id not in highlights: highlights[book_id] = {"highlights": []}
AppendHighlight_first(doc, book_id, highlight) ==
    LET doc1 == IF book_id \in DocBooks(doc) THEN doc
                ELSE Append(doc, [book |-> book_id, highlights |-> <<>>])
    IN  [doc1 EXCEPT ![1].highlights = Append(@, highlight)]

AppendHighlight_front(doc, book_id, highlight) ==
    LET doc1 == IF book_id \in DocBooks(doc) THEN doc
                ELSE Append(doc, [book |-> book_id, highlights |-> <<>>])
    IN  [doc1 EXCEPT ![DocIndex(doc1, book_id)].highlights = <<highlight>> \o @]

AppendHighlight(doc, book_id, highlight) ==
    LET doc1 == IF book_id \in DocBooks(doc) THEN doc
                ELSE Append(doc, [book |-> book_id, highlights |-> <<>>])
    IN  [doc1 EXCEPT ![DocIndex(doc1, book_id)].highlights = Append(@, highlight)]

\* POST /api/books/{book_id}/highlights, server.py:611-662
create_highlight(book_id, body) ==
    LET book == load_book_cached(cache, dirs, book_id)
        highlight == NewHighlight(body)
    IN  /\ nextUuid < MaxUuids
        /\ cache' = cache_after(cache, dirs, book_id)
        /\ IF book = None
           THEN /\ hlResp' = [op |-> "create", status |-> 404, book |-> book_id]
                /\ UNCHANGED <<hlFile, nextUuid>>
           ELSE /\ hlFile' = save_highlights(
                                 AppendHighlight(load_highlights(hlFile), book_id, highlight))
                /\ nextUuid' = nextUuid + 1
                /\ hlResp' = [op |-> "create", status |-> 200, book |-> book_id,
                              highlight |-> highlight]
        /\ UNCHANGED <<hlReq, hlTemp, hlSave>>

\* GET /api/books/{book_id}/highlights, server.py:601-608
get_book_highlights(book_id) ==
    /\ hlResp' = [op |-> "get", status |-> 200, book |-> book_id,
                  highlights |-> BookHighlights(load_highlights(hlFile), book_id)]
    /\ UNCHANGED <<hlFile, nextUuid, hlReq, cache, hlTemp, hlSave>>

\* del highlights[book_id]["highlights"][idx]
RemoveAt_first(list, idx) == Tail(list)
RemoveAt(list, idx) == SubSeq(list, 1, idx - 1) \o SubSeq(list, idx + 1, Len(list))

DeleteAt(doc, book_id, idx) ==
    [doc EXCEPT ![DocIndex(doc, book_id)].highlights = RemoveAt(@, idx)]

\* DELETE /api/highlights/{highlight_id}, server.py:695-718; there is no await
\* between the lookup and the save
delete_highlight(highlight_id) ==
    LET found == get_highlight_by_id(load_highlights(hlFile), highlight_id)
    IN  /\ IF found = NotFound
           THEN /\ hlResp' = [op |-> "delete", status |-> 404, id |-> highlight_id]
                /\ UNCHANGED hlFile
           ELSE /\ hlFile' = save_highlights(
                                 DeleteAt(load_highlights(hlFile), found.book, found.idx))
                /\ hlResp' = [op |-> "delete", status |-> 200, id |-> highlight_id]
        /\ UNCHANGED <<nextUuid, hlReq, cache, hlTemp, hlSave>>

(* PUT /api/highlights/{highlight_id}, server.py:665-692, in two steps: the
   lookup, and after `await request.json()` the reload, write and save. *)
update_highlight_find(r, highlight_id) ==
    LET found == get_highlight_by_id(load_highlights(hlFile), highlight_id)
    IN  /\ hlReq[r] = None
        /\ IF found = NotFound
           THEN /\ hlResp' = [op |-> "update", status |-> 404, id |-> highlight_id]
                /\ UNCHANGED hlReq
           ELSE /\ hlReq' = [hlReq EXCEPT ![r] =
                                 [id |-> highlight_id, book |-> found.book,
                                  idx |-> found.idx]]
                /\ UNCHANGED hlResp
        /\ UNCHANGED <<hlFile, nextUuid, cache, hlTemp, hlSave>>

\* highlights[book_id]["highlights"][idx] exists
InRange(doc, book_id, idx) ==
    book_id \in DocBooks(doc) /\ idx <= Len(BookHighlights(doc, book_id))

update_highlight_write(r, body) ==
    LET req == hlReq[r]
        doc == load_highlights(hlFile)
        ok  == InRange(doc, req.book, req.idx)
        doc1 == IF body.has
                THEN [doc EXCEPT ![DocIndex(doc, req.book)].highlights[req.idx].note =
                                     body.note]
                ELSE doc
    IN  /\ req # None
        /\ hlReq' = [hlReq EXCEPT ![r] = None]
        /\ IF body.has /\ ~ok
           THEN \* KeyError / IndexError before the save
                /\ hlResp' = [op |-> "update", status |-> 500, id |-> req.id]
                /\ UNCHANGED hlFile
           ELSE /\ hlFile' = save_highlights(doc1)
                /\ hlResp' = IF ok
                             THEN [op |-> "update", status |-> 200, id |-> req.id,
                                   body |-> body,
                                   highlight |-> BookHighlights(doc1, req.book)[req.idx]]
                             ELSE [op |-> "update", status |-> 500, id |-> req.id]
        /\ UNCHANGED <<nextUuid, cache, hlTemp, hlSave>>

----------------------------------------------------------------------------
(* save_highlights step by step, server.py:197-207: the open of the temp
   file, json.dump writing the text piece by piece, os.replace. Any of the
   three can raise; the handler then answers 500. save_highlights has no
   await, so one call runs at a time. *)

\* the text json.dump writes: "{", one piece per book entry, "}"
dumps(doc) ==
    <<[tok |-> "{"]>> \o [i \in DOMAIN doc |-> [tok |-> "entry", entry |-> doc[i]]]
                      \o <<[tok |-> "}"]>>

IsComplete(text) ==
    Len(text) >= 2 /\ text[1].tok = "{" /\ text[Len(text)].tok = "}"

\* json.load of a complete text
loads(text) == [i \in 1..(Len(text) - 2) |-> text[i + 1].entry]

\* highlights.json with that text: json.load raises on a torn text and
\* load_highlights then returns {}
FileWith(text) ==
    IF IsComplete(text) THEN [exists |-> TRUE, doc |-> loads(text)]
    ELSE [exists |-> TRUE, doc |-> EmptyDocument, torn |-> TRUE]

Saving(op, doc, response) ==
    [op |-> op, doc |-> doc, response |-> response, pc |-> "open"]

\* POST /api/books/{book_id}/highlights up to the call of save_highlights
create_highlight_begin(book_id, body) ==
    LET book == load_book_cached(cache, dirs, book_id)
        highlight == NewHighlight(body)
    IN  /\ hlSave = None
        /\ nextUuid < MaxUuids
        /\ cache' = cache_after(cache, dirs, book_id)
        /\ IF book = None
           THEN /\ hlResp' = [op |-> "create", status |-> 404, book |-> book_id]
                /\ UNCHANGED <<hlSave, nextUuid>>
           ELSE /\ hlSave' = Saving("create",
                                 AppendHighlight(load_highlights(hlFile), book_id, highlight),
                                 [op |-> "create", status |-> 200, book |-> book_id,
                                  highlight |-> highlight])
                /\ nextUuid' = nextUuid + 1
                /\ UNCHANGED hlResp
        /\ UNCHANGED <<hlFile, hlReq, hlTemp>>

\* DELETE /api/highlights/{highlight_id} up to the call of save_highlights
delete_highlight_begin(highlight_id) ==
    LET found == get_highlight_by_id(load_highlights(hlFile), highlight_id)
    IN  /\ hlSave = None
        /\ IF found = NotFound
           THEN /\ hlResp' = [op |-> "delete", status |-> 404, id |-> highlight_id]
                /\ UNCHANGED hlSave
           ELSE /\ hlSave' = Saving("delete",
                                 DeleteAt(load_highlights(hlFile), found.book, found.idx),
                                 [op |-> "delete", status |-> 200, id |-> highlight_id])
                /\ UNCHANGED hlResp
        /\ UNCHANGED <<hlFile, nextUuid, hlReq, hlTemp, cache>>

\* except Exception: raise HTTPException(status_code=500, ...)
save_failed ==
    /\ hlResp' = [op |-> hlSave.op, status |-> 500, detail |-> "Failed to save highlights"]
    /\ hlSave' = None
    /\ UNCHANGED <<hlFile, hlTemp>>

\* open(temp_file, 'w'): creates or truncates highlights.json.tmp
save_open(fault) ==
    /\ hlSave # None /\ hlSave.pc = "open"
    /\ IF fault THEN save_failed
       ELSE /\ hlTemp' = [exists |-> TRUE, text |-> <<>>]
            /\ hlSave' = [hlSave EXCEPT !.pc = "dump"]
            /\ UNCHANGED <<hlFile, hlResp>>
    /\ UNCHANGED <<nextUuid, hlReq, cache>>

\* the with block is left when json.dump has written the whole text
DumpDone_early(save, temp) == TRUE
DumpDone(save, temp) == Len(temp.text) = Len(dumps(save.doc))

save_dump(fault) ==
    /\ hlSave # None /\ hlSave.pc = "dump"
    /\ ~DumpDone(hlSave, hlTemp)
    /\ IF fault THEN save_failed
       ELSE /\ hlTemp' = [hlTemp EXCEPT !.text =
                              Append(@, dumps(hlSave.doc)[Len(@) + 1])]
            /\ UNCHANGED <<hlFile, hlResp, hlSave>>
    /\ UNCHANGED <<nextUuid, hlReq, cache>>

\* os.replace(temp_file, HIGHLIGHTS_FILE), and the handler's answer
save_replace(fault) ==
    /\ hlSave # None /\ hlSave.pc = "dump"
    /\ DumpDone(hlSave, hlTemp)
    /\ IF fault THEN save_failed
       ELSE /\ hlFile' = FileWith(hlTemp.text)
            /\ hlTemp' = NoTemp
            /\ hlResp' = hlSave.response
            /\ hlSave' = None
    /\ UNCHANGED <<nextUuid, hlReq, cache>>

----------------------------------------------------------------------------
(* Markdown export, server.py:225-295 *)

\* sorted(highlights.keys())
SortedBooks(doc) == SortSeq([i \in DOMAIN doc |-> doc[i].book], StrLess)

HeaderLine == [kind |-> "h1", text |-> "# Reading Highlights"]
PlaceholderLine == [kind |-> "text", text |-> "No highlights yet."]
Placeholder == <<HeaderLine, PlaceholderLine>>

\* the lines of one highlight: the quote, its block reference, its note
HighlightLines(hl) ==
    <<[kind |-> "quote", text |-> hl.text], [kind |-> "ref", id |-> hl.id]>>
    \o (IF hl.note # "" THEN <<[kind |-> "note", text |-> hl.note]>> ELSE <<>>)
    \o <<[kind |-> "created", at |-> hl.timestamp], [kind |-> "rule"]>>

RECURSIVE FlatMap(_, _)
FlatMap(list, ch) ==
    IF list = <<>> THEN <<>>
    ELSE (IF Head(list).chapter_index = ch THEN HighlightLines(Head(list)) ELSE <<>>)
         \o FlatMap(Tail(list), ch)

ChapterTitle(book, ch) ==
    IF book # None /\ ch < book.spine THEN [spine |-> ch] ELSE [chapter |-> ch + 1]

\* the chapters of one book, for ch_idx in sorted(by_chapter.keys())
RECURSIVE ChapterLines(_, _, _)
ChapterLines(book, list, chapters) ==
    IF chapters = <<>> THEN <<>>
    ELSE LET ch == Head(chapters)
         IN  (IF \E i \in DOMAIN list : list[i].chapter_index = ch
              THEN <<[kind |-> "h3", title |-> ChapterTitle(book, ch)]>>
                   \o FlatMap(list, ch)
              ELSE <<>>)
             \o ChapterLines(book, list, Tail(chapters))

ChapterIndexes == <<0, 1>>

BookTitle(book, book_id) == IF book # None THEN [title |-> book.src] ELSE [title |-> book_id]

\* the loop over the books: the lines, and the Book Store cache after the
\* load_book_cached calls for the books that have highlights
RECURSIVE ExportBooks(_, _, _, _)
ExportBooks(books, doc, c, d) ==
    IF books = <<>> THEN [lines |-> <<>>, cache |-> c]
    ELSE LET book_id == Head(books)
             list == BookHighlights(doc, book_id)
         IN  IF list = <<>> THEN ExportBooks(Tail(books), doc, c, d)
             ELSE LET book == load_book_cached(c, d, book_id)
                      rest == ExportBooks(Tail(books), doc, cache_after(c, d, book_id), d)
                  IN  [lines |-> <<[kind |-> "h2", title |-> BookTitle(book, book_id)]>>
                                 \o ChapterLines(book, list, ChapterIndexes)
                                 \o rest.lines,
                       cache |-> rest.cache]

\* if not highlights: the placeholder
IsEmptyDocument(doc) == doc = EmptyDocument

export_to_obsidian_markdown(doc, c, d) ==
    IF IsEmptyDocument(doc) THEN [lines |-> Placeholder, cache |-> c]
    ELSE LET walk == ExportBooks(SortedBooks(doc), doc, c, d)
         IN  [lines |-> <<HeaderLine>> \o walk.lines, cache |-> walk.cache]

\* GET /api/highlights/export/markdown, server.py:721-737
export_highlights_markdown ==
    LET out == export_to_obsidian_markdown(load_highlights(hlFile), cache, dirs)
    IN  /\ hlResp' = [op |-> "export", status |-> 200, lines |-> out.lines]
        /\ cache' = out.cache
        /\ UNCHANGED <<hlFile, nextUuid, hlReq, hlTemp, hlSave>>

----------------------------------------------------------------------------
(* The Auth Gate, server.py:140-161, and the login page, server.py:324-330.
   A URL is the sequence of its pieces, the delimiters "/", "?", "&", "="
   and "+" pieces of their own; no piece holds a "%". *)

LOGIN_PATH == <<"/", "login">>
READER_LOGIN_PATH == <<"/", "reader", "/", "login">>
LoginPaths == {LOGIN_PATH, READER_LOGIN_PATH}

\* next_url = request.url.path, plus "?" + request.url.query if there is one
next_url(path, query) ==
    IF query # <<>> THEN path \o <<"?">> \o query ELSE path

\* url=f"/reader/login?next={next_url}"
LoginRedirect(path, query) ==
    READER_LOGIN_PATH \o <<"?", "next", "=">> \o next_url(path, query)

\* request.url.path and request.url.query of a requested URL
UrlPath(url) ==
    IF FirstIndex(url, "?") = 0 THEN url ELSE SubSeq(url, 1, FirstIndex(url, "?") - 1)
UrlQuery(url) ==
    IF FirstIndex(url, "?") = 0 THEN <<>> ELSE SubSeq(url, FirstIndex(url, "?") + 1, Len(url))

RECURSIVE Split(_, _)
Split(s, sep) ==
    IF FirstIndex(s, sep) = 0 THEN <<s>>
    ELSE <<SubSeq(s, 1, FirstIndex(s, sep) - 1)>>
             \o Split(SubSeq(s, FirstIndex(s, sep) + 1, Len(s)), sep)

unquote_plus(s) == [i \in DOMAIN s |-> IF s[i] = "+" THEN " " ELSE s[i]]

\* the query string's fields: split on "&", each at its first "="
QueryFields(query) ==
    LET NonEmpty(f) == f # <<>> IN SelectSeq(Split(query, "&"), NonEmpty)
FieldKey(f) ==
    unquote_plus(IF FirstIndex(f, "=") = 0 THEN f ELSE SubSeq(f, 1, FirstIndex(f, "=") - 1))
FieldValue(f) ==
    unquote_plus(IF FirstIndex(f, "=") = 0 THEN <<>>
                 ELSE SubSeq(f, FirstIndex(f, "=") + 1, Len(f)))

\* a str parameter of a route: the last field of that name, or the default
QueryParam(query, name, default) ==
    LET Named(f) == FieldKey(f) = name
        hits == SelectSeq(QueryFields(query), Named)
    IN  IF hits = <<>> THEN default ELSE FieldValue(hits[Len(hits)])

\* GET /login: next: str = "/", rendered into the form
login_page(query) ==
    /\ loginResp' = [op |-> "login_page", status |-> 200,
                     next |-> QueryParam(query, <<"next">>, <<"/">>)]
    /\ UNCHANGED <<now, ticks, LOGIN_ATTEMPTS, failLog>>

\* the requests made, and the routes that serve them
ReadPath       == <<"/", "read", "/", "a_data", "/", "0">>
HighlightsPath == <<"/", "api", "/", "books", "/", "a_data", "/", "highlights">>
HighlightPath  == <<"/", "api", "/", "highlights", "/", "1">>

Request(method, path, query) == [method |-> method, path |-> path, query |-> query]

AuthFrame == UNCHANGED <<now, ticks, LOGIN_ATTEMPTS, failLog, loginResp>>
ShelfFrame == UNCHANGED <<dirs, tempFiles, up, uploadResp, libResp>>

\* response.set_cookie(key=COOKIE_NAME, value=create_auth_cookie(), ...)
set_cookie == jar' = IF loginResp'.status = 302 THEN loginResp'.cookie ELSE jar

call_next(req, form) ==
    CASE req.method = "GET" /\ req.path \in LoginPaths ->
             login_page(req.query) /\ UNCHANGED <<jar, libVars, hlVars>>
      [] req.method = "POST" /\ req.path \in LoginPaths ->
             /\ login_submit(form.ip, form.passwordOk, form.next)
             /\ set_cookie
             /\ UNCHANGED <<libVars, hlVars>>
      [] req.method = "GET" /\ req.path = ReadPath ->
             read_chapter(DirA, 0) /\ AuthFrame /\ UNCHANGED <<jar, hlVars>>
      [] req.method = "POST" /\ req.path = HighlightsPath ->
             create_highlight(DirA, form.body) /\ AuthFrame /\ ShelfFrame /\ UNCHANGED jar
      [] req.method = "DELETE" /\ req.path = HighlightPath ->
             delete_highlight(1) /\ AuthFrame /\ ShelfFrame /\ UNCHANGED jar

Answered(req, cookie, ran, status, location) ==
    [op |-> "auth", method |-> req.method, path |-> req.path, query |-> req.query,
     cookie |-> cookie, at |-> now, ran |-> ran, status |-> status,
     location |-> location]

auth_middleware(req, cookie, form) ==
    IF req.path = LOGIN_PATH \/ req.path = READER_LOGIN_PATH
    THEN /\ call_next(req, form)
         /\ authResp' = Answered(req, cookie, TRUE, 0, <<>>)
    ELSE IF ~verify_cookie(cookie, now)
    THEN /\ authResp' = Answered(req, cookie, FALSE, 302, LoginRedirect(req.path, req.query))
         /\ UNCHANGED <<now, ticks, LOGIN_ATTEMPTS, failLog, loginResp, jar, libVars, hlVars>>
    ELSE /\ call_next(req, form)
         /\ authResp' = Answered(req, cookie, TRUE, 0, <<>>)

----------------------------------------------------------------------------
(* The state after the module is imported *)

Init ==
    /\ now = 0
    /\ ticks = 0
    /\ LOGIN_ATTEMPTS = [ip \in IPs |-> <<>>]
    /\ failLog = [ip \in IPs |-> <<>>]
    /\ loginResp = NoResp
    /\ jar = NoCookie
    /\ authResp = NoResp
    /\ dirs = [d \in BookDirs |-> Absent]
    /\ tempFiles = [t \in TempPaths |-> Absent]
    /\ cache = <<>>
    /\ up = [r \in UpReqs |-> None]
    /\ uploadResp = [r \in UpReqs |-> NoResp]
    /\ libResp = NoResp
    /\ hlFile = MissingFile
    /\ nextUuid = 0
    /\ hlReq = [r \in HlReqs |-> None]
    /\ hlResp = NoResp
    /\ hlTemp = NoTemp
    /\ hlSave = None

----------------------------------------------------------------------------
(* The login rate limit on its own *)

LoginTick == Tick(LoginSteps) /\ UNCHANGED <<LOGIN_ATTEMPTS, failLog, loginResp, jar>>

\* the failed attempts answered so far, over all IPs
Failures == LET n[S \in SUBSET IPs] ==
                    IF S = {} THEN 0
                    ELSE LET ip == CHOOSE x \in S : TRUE
                         IN  Len(failLog[ip]) + n[S \ {ip}]
            IN  n[IPs]

Login ==
    \E ip \in IPs, passwordOk \in BOOLEAN :
        /\ passwordOk \/ Failures < MaxFailures
        /\ login_submit(ip, passwordOk, <<"/">>)
        /\ UNCHANGED jar

LoginNext ==
    \/ LoginTick /\ UNCHANGED <<authResp, libVars, hlVars>>
    \/ Login /\ UNCHANGED <<authResp, libVars, hlVars>>

SpecLogin == Init /\ [][LoginNext]_vars

----------------------------------------------------------------------------
(* Logins with a return target of the client's choosing *)

\* "/", "/read", "//host/path", "http://host", "read" and ""
NextValues ==
    {<<"/">>, <<"/", "read">>, <<"/", "/", "host", "/", "path">>,
     <<"http:", "/", "/", "host">>, <<"read">>, <<>>}

LoginTo ==
    \E ip \in IPs, passwordOk \in BOOLEAN, next \in NextValues :
        /\ passwordOk \/ Failures < MaxFailures
        /\ login_submit(ip, passwordOk, next)
        /\ set_cookie
        /\ UNCHANGED <<authResp, libVars, hlVars>>

LoginToNext == LoginTo

SpecLoginTo == Init /\ [][LoginToNext]_vars

----------------------------------------------------------------------------
(* The Highlight Store with a library of two converted books on disk, as a
   previous run of the server left it *)

SomeBook(d) == Book(d, <<>>, 1)

InitLibrary ==
    /\ Init!1 /\ Init!2 /\ Init!3 /\ Init!4 /\ Init!5 /\ Init!6 /\ Init!7
    /\ dirs = [d \in BookDirs |-> [pkl |-> SomeBook(d)]]
    /\ tempFiles = [t \in TempPaths |-> Absent]
    /\ cache = <<>>
    /\ up = [r \in UpReqs |-> None]
    /\ uploadResp = [r \in UpReqs |-> NoResp]
    /\ libResp = NoResp
    /\ hlFile = MissingFile
    /\ nextUuid = 0
    /\ hlReq = [r \in HlReqs |-> None]
    /\ hlResp = NoResp
    /\ hlTemp = NoTemp
    /\ hlSave = None

HlIds == 1..(MaxUuids + 1)

LibFrame == UNCHANGED <<authVars, dirs, tempFiles, up, uploadResp, libResp>>

HlCreate == \E b \in BookDirs, body \in HlBodies : create_highlight(b, body) /\ LibFrame
HlGet    == \E b \in BookDirs : get_book_highlights(b) /\ LibFrame
HlDelete == \E id \in HlIds : delete_highlight(id) /\ LibFrame
HlUpdateFind  == \E r \in HlReqs, id \in HlIds : update_highlight_find(r, id) /\ LibFrame
HlUpdateWrite == \E r \in HlReqs, body \in NoteBodies : update_highlight_write(r, body) /\ LibFrame
HlExport == export_highlights_markdown /\ LibFrame

HighlightsNext ==
    HlCreate \/ HlGet \/ HlDelete \/ HlUpdateFind \/ HlUpdateWrite \/ HlExport

SpecHighlights == InitLibrary /\ [][HighlightsNext]_vars

----------------------------------------------------------------------------
(* The Highlight Store with its saves taken step by step, each step able
   to fail *)

SaveCreate  == \E b \in BookDirs, body \in HlBodies :
                   create_highlight_begin(b, body) /\ LibFrame
SaveDelete  == \E id \in HlIds : delete_highlight_begin(id) /\ LibFrame
SaveOpen    == \E fault \in BOOLEAN : save_open(fault) /\ LibFrame
SaveDump    == \E fault \in BOOLEAN : save_dump(fault) /\ LibFrame
SaveReplace == \E fault \in BOOLEAN : save_replace(fault) /\ LibFrame

SaveNext == SaveCreate \/ SaveDelete \/ SaveOpen \/ SaveDump \/ SaveReplace

SpecSave == InitLibrary /\ [][SaveNext]_vars

----------------------------------------------------------------------------
(* Uploads, one request at a time, and uploads that overlap *)

OtherFrame == UNCHANGED <<authVars, hlVars>>
Idle == \A r \in UpReqs : up[r] = None

UpStart  == \E r \in UpReqs, f \in GoodFiles \cup BadFiles, c \in Contents :
                upload_start(r, f, c) /\ UNCHANGED libResp /\ OtherFrame
UpWrite  == \E r \in UpReqs : upload_write(r) /\ UNCHANGED libResp /\ OtherFrame
UpFinish == \E r \in UpReqs, partial \in BOOLEAN :
                upload_finish(r, 1, partial, "none") /\ UNCHANGED libResp /\ OtherFrame
LibList  == library_view /\ OtherFrame
LibTags  == \E b \in BookIds : get_book_tags(b) /\ OtherFrame

UploadNext ==
    \/ Idle /\ UpStart
    \/ UpWrite
    \/ UpFinish
    \/ Idle /\ LibList
    \/ Idle /\ LibTags

SpecUpload == Init /\ [][UploadNext]_vars

\* two overlapping uploads of files that derive the same book directory
ConcFiles == {FileAEpub, FileAPdf, FileBEpub}
UpStartConc == \E r \in UpReqs, f \in ConcFiles, c \in Contents :
                   upload_start(r, f, c) /\ UNCHANGED libResp /\ OtherFrame

UploadConcNext == UpStartConc \/ UpWrite \/ UpFinish \/ LibList

SpecUploadConc == Init /\ [][UploadConcNext]_vars

\* overlapping uploads in which the write, the conversion or the snapshot
\* can fail
UpWriteFailed == \E r \in UpReqs : upload_write_failed(r) /\ UNCHANGED libResp /\ OtherFrame
UpFinishFault == \E r \in UpReqs, partial \in BOOLEAN, fault \in {"convert", "save"} :
                     upload_finish(r, 1, partial, fault) /\ UNCHANGED libResp /\ OtherFrame

UploadFaultNext ==
    UpStartConc \/ UpWrite \/ UpWriteFailed \/ UpFinish \/ UpFinishFault \/ LibList

SpecUploadFault == Init /\ [][UploadFaultNext]_vars

----------------------------------------------------------------------------
(* The Auth Gate in front of the reader and the Highlight Store: a browser
   that keeps the cookie it was given, a client that forges one, and a clock
   that passes the session lifetime *)

MaxAuthFailures == 1
MaxAuthUuids == 1

Queries == {<<>>, <<"a", "=", "1">>, <<"a", "=", "1", "&", "b", "=", "2">>}

GatedRequests ==
    {Request("GET", ReadPath, q) : q \in Queries}
        \cup {Request("POST", HighlightsPath, <<>>), Request("DELETE", HighlightPath, <<>>)}

Cookies == {NoCookie, jar, [key |-> OtherKey, ts |-> now]}

NoForm == [ip |-> "ip1", passwordOk |-> FALSE, next |-> <<"/">>,
           body |-> [text |-> "t", chapter_index |-> 0, note |-> ""]]

AuthTick == Tick(SessionSteps) /\ UNCHANGED <<LOGIN_ATTEMPTS, failLog, loginResp, jar,
                                              authResp, libVars, hlVars>>

AuthRequest == \E req \in GatedRequests, cookie \in Cookies :
                   /\ req.method = "POST" => nextUuid < MaxAuthUuids
                   /\ auth_middleware(req, cookie, NoForm)

\* the browser follows the redirect it was answered with
AuthFollow ==
    /\ authResp.op = "auth" /\ authResp.status = 302
    /\ auth_middleware(Request("GET", UrlPath(authResp.location),
                               UrlQuery(authResp.location)), jar, NoForm)

\* and submits the form of the login page
AuthLogin ==
    /\ loginResp.op = "login_page"
    /\ \E passwordOk \in BOOLEAN :
           /\ passwordOk \/ Failures < MaxAuthFailures
           /\ auth_middleware(Request("POST", READER_LOGIN_PATH, <<>>), jar,
                              [NoForm EXCEPT !.passwordOk = passwordOk,
                                             !.next = loginResp.next])

AuthNext == AuthTick \/ AuthRequest \/ AuthFollow \/ AuthLogin

SpecAuth == InitLibrary /\ [][AuthNext]_vars

----------------------------------------------------------------------------
(* The Tag Manager on a library of two books *)

MaxTags == 3

\* "  Sci-Fi ", "sci-fi", "", " ", " b", and tags of 30 and 31 characters
TagSciFi  == <<" ", " ", "S", "c", "i", "-", "F", "i", " ">>
TagSciFi2 == <<"s", "c", "i", "-", "f", "i">>
TagInputs ==
    {TagSciFi, TagSciFi2, <<>>, <<" ">>, <<" ", "b">>,
     <<" ">> \o Rep("A", MAX_TAG_LEN), Rep("a", MAX_TAG_LEN + 1)}

TagsUpdate == \E b \in {DirA, NoSuchBook}, tags_input \in SeqsUpTo(TagInputs, MaxTags) :
                  update_book_tags(b, tags_input, "none") /\ OtherFrame
TagsGet    == \E b \in {DirA, NoSuchBook} : get_book_tags(b) /\ OtherFrame

TagsNext == TagsUpdate \/ TagsGet

SpecTags == InitLibrary /\ [][TagsNext]_vars

----------------------------------------------------------------------------
(* The Tag Manager when save_to_pickle can fail *)

FewTagLists == {<<>>, <<TagSciFi2>>, <<<<"b">>>>, <<TagSciFi, <<" ", "b">>>>}

TagsUpdateFault ==
    \E b \in BookIds, tags_input \in FewTagLists, fault \in {"none", "save"} :
        update_book_tags(b, tags_input, fault) /\ OtherFrame

TagsFaultNext == TagsUpdateFault \/ LibTags \/ LibList

SpecTagsFault == InitLibrary /\ [][TagsFaultNext]_vars

----------------------------------------------------------------------------
(* The reader on libraries of books with spines of every length *)

MaxSpine == 3

InitShelf ==
    /\ Init!1 /\ Init!2 /\ Init!3 /\ Init!4 /\ Init!5 /\ Init!6 /\ Init!7
    /\ dirs \in [BookDirs -> {Absent} \cup {[pkl |-> Book("x", <<>>, n)] : n \in 0..MaxSpine}]
    /\ tempFiles = [t \in TempPaths |-> Absent]
    /\ cache = <<>>
    /\ up = [r \in UpReqs |-> None]
    /\ uploadResp = [r \in UpReqs |-> NoResp]
    /\ libResp = NoResp
    /\ hlFile = MissingFile
    /\ nextUuid = 0
    /\ hlReq = [r \in HlReqs |-> None]
    /\ hlResp = NoResp
    /\ hlTemp = NoTemp
    /\ hlSave = None

ReadChapter == \E b \in BookIds, n \in (-1)..(MaxSpine + 1) :
                   read_chapter(b, n) /\ OtherFrame

ReadNext == ReadChapter

SpecRead == InitShelf /\ [][ReadNext]_vars

----------------------------------------------------------------------------
(* Image requests *)

ImageBookIds ==
    {DirA, DirB, NoSuchBook, DotDot, DotName, ImagesName,
     DotDot \o <<Sep>> \o DirA, DirA \o <<Sep>> \o DotDot, DirA \o <<Sep>>, <<Sep>>}
ImageNames ==
    {Pic, <<"q">>, DotDot, DotName, ImagesName, DirA,
     DotDot \o <<Sep>> \o Pic, Pic \o <<Sep>> \o DotDot, Pic \o <<Sep>>, <<Sep>>}

ServeImage == \E book_id \in ImageBookIds, image_name \in ImageNames :
                  serve_image(book_id, image_name) /\ OtherFrame

ImageNext == ServeImage

SpecImage == InitLibrary /\ [][ImageNext]_vars

----------------------------------------------------------------------------
(* The Highlight Store's claims *)

Doc == load_highlights(hlFile)

\* C7: every highlight id is unique across the whole document, an id given
\* to a new highlight was in no book's list before, and a highlight created
\* for an existing book is in the list the next GET for that book returns.
UniqueIds ==
    \A p \in Positions(Doc), q \in Positions(Doc) :
        p # q => Doc[p[1]].highlights[p[2]].id # Doc[q[1]].highlights[q[2]].id

CreatedIsFresh ==
    (nextUuid' # nextUuid) =>
        /\ hlResp'.op = "create" /\ hlResp'.status = 200
        /\ hlResp'.highlight.id \notin AllIds(Doc)
        /\ hlResp'.highlight.id \in AllIds(Doc')

CreatedIsReturned ==
    (/\ hlResp.op = "create" /\ hlResp.status = 200
     /\ hlResp'.op = "get" /\ hlResp'.book = hlResp.book)
    => \E i \in DOMAIN hlResp'.highlights : hlResp'.highlights[i] = hlResp.highlight

C7_UniqueIds == [](UniqueIds) /\ [][CreatedIsFresh /\ CreatedIsReturned]_vars

C7_Witness ==
    /\ hlResp.op = "get" /\ hlResp.highlights # <<>>
    /\ BookHighlights(Doc, DirA) # <<>>
    /\ BookHighlights(Doc, DirB) # <<>>

\* C8: DELETE of an id in no book's list answers 404 and leaves the document
\* as it was; DELETE of an id that is present answers 200 and removes that
\* highlight only, every other highlight of every book staying in place and in
\* order; an id that is gone never comes back.
DeleteStep == hlResp'.op = "delete" /\ <<hlFile, hlResp>>' # <<hlFile, hlResp>>

Without(list, id) == LET Other(h) == h.id # id IN SelectSeq(list, Other)

DeleteExact ==
    DeleteStep =>
        LET id == hlResp'.id
        IN  IF id \notin AllIds(Doc)
            THEN hlResp'.status = 404 /\ hlFile' = hlFile
            ELSE /\ hlResp'.status = 200
                 /\ id \notin AllIds(Doc')
                 /\ Len(Doc') = Len(Doc)
                 /\ \A i \in DOMAIN Doc :
                        /\ Doc'[i].book = Doc[i].book
                        /\ Doc'[i].highlights = Without(Doc[i].highlights, id)
                 /\ Cardinality(Positions(Doc')) = Cardinality(Positions(Doc)) - 1

GoneStaysGone ==
    \A id \in 1..nextUuid : id \notin AllIds(Doc) => id \notin AllIds(Doc')

C8_DeleteExact == [][DeleteExact /\ GoneStaysGone]_vars

C8_Witness ==
    /\ hlResp.op = "delete" /\ hlResp.status = 200
    /\ Cardinality(Positions(Doc)) >= 2

\* C9: in the Markdown export a book with an empty highlight list has no
\* section, and with no highlight anywhere the export is the placeholder
\* text "No highlights yet.".
SectionOf(lines, title) ==
    \E i \in DOMAIN lines : lines[i].kind = "h2" /\ lines[i].title = title

C9_ExportPlaceholder ==
    hlResp.op = "export" =>
        /\ \A b \in BookIds :
               BookHighlights(Doc, b) = <<>> =>
                   ~SectionOf(hlResp.lines, BookTitle(load_book_cached(cache, dirs, b), b))
        /\ Positions(Doc) = {} => hlResp.lines = Placeholder

----------------------------------------------------------------------------
(* The login rate limit's claims *)

\* the failed attempts of ip answered before the last POST /login
PriorFailures ==
    LET log == failLog[loginResp.ip]
    IN  IF loginResp.status = 401 THEN SubSeq(log, 1, Len(log) - 1) ELSE log

\* how many of them were less than 15 minutes old when it was checked
RecentFailures ==
    Cardinality({i \in DOMAIN PriorFailures :
                     loginResp.at - PriorFailures[i] < RATE_LIMIT_WINDOW})

\* C1: a POST /login is answered 429, whatever its password, exactly when at
\* least 5 failed attempts from the same IP were answered in the 15 minutes
\* before it; otherwise a correct password logs in (302) and a wrong one is
\* answered 401. The 429 answers are not counted.
C1_RateLimit ==
    loginResp.op = "login" =>
        /\ loginResp.status = 429 <=> RecentFailures >= MAX_ATTEMPTS
        /\ loginResp.status # 429 =>
               loginResp.status = (IF loginResp.passwordOk THEN 302 ELSE 401)

\* a correct password logs in when the fifth failure is exactly 15 minutes old
C1_Witness ==
    /\ loginResp.op = "login" /\ loginResp.status = 302
    /\ Len(failLog[loginResp.ip]) >= MAX_ATTEMPTS
    /\ loginResp.at - failLog[loginResp.ip][MAX_ATTEMPTS] = RATE_LIMIT_WINDOW

\* the sixth attempt after five failures is rejected although its password is right
C1_Locked ==
    /\ loginResp.op = "login" /\ loginResp.status = 429 /\ loginResp.passwordOk
    /\ RecentFailures = MAX_ATTEMPTS

----------------------------------------------------------------------------
(* The upload claims *)

EndsWith(s, e) == Len(s) >= Len(e) /\ SubSeq(s, Len(s) - Len(e) + 1, Len(s)) = e

\* the file name ends in .epub or .pdf, in any case
NamedEpubOrPdf(filename) ==
    EndsWith(lower(filename), EpubExt) \/ EndsWith(lower(filename), PdfExt)

Finishes(r) == up[r] # None /\ up'[r] = None
Rejected(r) == up[r] = None /\ up'[r] = None /\ uploadResp'[r] # uploadResp[r]
Accepted(r) == up[r] = None /\ up'[r] # None

Listed(c, d) ==
    LET books == ListBooks(ListedDirs(d), c, d).books
    IN  {books[i].id : i \in DOMAIN books}

\* C3: with one request at a time, an upload of a valid book whose directory
\* does not exist yet is answered 200 with the book id, the directory then
\* holds a loadable snapshot, and the next library listing has the book,
\* also when the book id was looked up, and the miss cached, before; every
\* listing has every book whose snapshot is on disk.
UploadListed ==
    \A r \in UpReqs :
        (Finishes(r) /\ up[r].content.valid) =>
            /\ uploadResp'[r].status = 200
            /\ uploadResp'[r].book_id = up[r].out_dir
            /\ FromDisk(dirs', up[r].out_dir) # None
            /\ up[r].out_dir \in Listed(cache', dirs')

ListingComplete ==
    (libResp'.op = "list" /\ libResp' # libResp) =>
        \A d \in BookDirs :
            FromDisk(dirs, d) # None =>
                \E i \in DOMAIN libResp'.books : libResp'.books[i].id = d

C4_NoOverwrite ==
    [][/\ \A d \in BookDirs : FromDisk(dirs, d) # None => dirs'[d] = dirs[d]
       /\ \A r \in UpReqs :
              (Rejected(r) /\ NamedEpubOrPdf(uploadResp'[r].filename)
                           /\ uploadResp'[r].status # 400) =>
                  uploadResp'[r].status = 409]_vars

\* C5 as stated: every upload whose name does not end in .epub or .pdf is
\* answered 400 with 'Only .epub or .pdf files are supported', and nothing
\* else changes.
RejectsType(r) ==
    /\ Rejected(r)
    /\ uploadResp'[r].status = 400
    /\ uploadResp'[r].detail = Detail400Type
    /\ UNCHANGED <<dirs, tempFiles, cache>>
    /\ Listed(cache', dirs') = Listed(cache, dirs)

RejectsNoFile(r) ==
    /\ Rejected(r)
    /\ uploadResp'[r].status = 400
    /\ uploadResp'[r].detail = Detail400NoFile
    /\ UNCHANGED <<dirs, tempFiles, cache>>
    /\ Listed(cache', dirs') = Listed(cache, dirs)

StartedWith(r, filename) ==
    \/ Accepted(r) /\ up'[r].filename = filename
    \/ Rejected(r) /\ uploadResp'[r].filename = filename

C5_RejectsOtherTypes ==
    [][\A r \in UpReqs, f \in GoodFiles \cup BadFiles :
           (StartedWith(r, f) /\ ~NamedEpubOrPdf(f)) => RejectsType(r)]_vars

\* C5 as amended: that holds for every upload that has a file name; an upload
\* without a file name is answered 400 with 'No file provided', and nothing
\* else changes.
C5_RejectsOtherTypesNamed ==
    [][\A r \in UpReqs, f \in GoodFiles \cup BadFiles :
           (StartedWith(r, f) /\ ~NamedEpubOrPdf(f)) =>
               IF f = <<>> THEN RejectsNoFile(r) ELSE RejectsType(r)]_vars

C5_Witness ==
    \E r \in UpReqs :
        /\ uploadResp[r].status = 400 /\ uploadResp[r].detail = Detail400Type
        /\ uploadResp[r].filename = FileTxt
        /\ \E d \in BookDirs : FromDisk(dirs, d) # None

----------------------------------------------------------------------------
(* The Tag Manager's claims *)

NoDuplicates(list) == \A i, j \in DOMAIN list : i # j => list[i] # list[j]

Trimmed(tag) == lower(strip(tag, {" "}))
Keeps(tag) == Trimmed(tag) # <<>> /\ Len(Trimmed(tag)) <= 30

\* the position in the input of the first tag that trims to t
FirstSeen(input, t) ==
    CHOOSE i \in DOMAIN input :
        Trimmed(input[i]) = t /\ \A j \in 1..(i - 1) : Trimmed(input[j]) # t

\* out is input trimmed and lowercased, without the empty and the over-long
\* tags, each tag once, at the place of its first occurrence
IsNormalFormOf(out, input) ==
    /\ NoDuplicates(out)
    /\ Range(out) = {Trimmed(input[i]) : i \in {j \in DOMAIN input : Keeps(input[j])}}
    /\ \A i, j \in DOMAIN out :
           i < j => FirstSeen(input, out[i]) < FirstSeen(input, out[j])

WellFormedTag(tag) ==
    /\ tag # <<>> /\ Len(tag) <= 30
    /\ Head(tag) # " " /\ tag[Len(tag)] # " "
    /\ \A i \in DOMAIN tag : tag[i] \notin UpperChars

StoredTags(book_id) == dirs[book_id].pkl.tags

\* C6: a successful PUT /api/books/{id}/tags stores and returns the input
\* trimmed, lowercased, without empty and over-long tags and without
\* duplicates, in first-seen order; ["  Sci-Fi ", "sci-fi", ""] gives
\* ["sci-fi"]; a stored list has only well-formed, distinct tags and is
\* its own normal form.
C6_TagsNormalized ==
    /\ NormalizeTags(<<TagSciFi, TagSciFi2, <<>>>>) = <<TagSciFi2>>
    /\ (libResp.op = "set_tags" /\ libResp.status = 200) =>
           /\ IsNormalFormOf(libResp.tags, libResp.input)
           /\ StoredTags(libResp.book) = libResp.tags
    /\ \A d \in BookDirs :
           FromDisk(dirs, d) # None =>
               /\ \A i \in DOMAIN StoredTags(d) : WellFormedTag(StoredTags(d)[i])
               /\ NoDuplicates(StoredTags(d))
               /\ NormalizeTags(StoredTags(d)) = StoredTags(d)

C6_Witness ==
    /\ libResp.op = "set_tags" /\ libResp.status = 200
    /\ libResp.input = <<TagSciFi, TagSciFi2, <<>>>>
    /\ StoredTags(DirA) = <<TagSciFi2>>

\* a tag of 31 characters is dropped, one of 30 after trimming is kept
C6_LongTags ==
    /\ libResp.op = "set_tags" /\ libResp.status = 200
    /\ libResp.input = <<Rep("a", 31), <<" ">> \o Rep("A", 30)>>
    /\ StoredTags(DirA) = <<Rep("a", 30)>>

----------------------------------------------------------------------------
(* The reader's claims *)

\* C10: for an existing book, GET /read/{book}/{n} is answered 404 exactly
\* when n < 0 or n >= len(spine); otherwise prev_idx is n-1, null exactly at
\* the first chapter, next_idx is n+1, null exactly at the last, and what is
\* not null is a chapter index of the book.
C10_ChapterBounds ==
    (libResp.op = "read" /\ FromDisk(dirs, libResp.book) # None) =>
        LET n == libResp.chapter_index
            len == FromDisk(dirs, libResp.book).spine
        IN  /\ libResp.status = 404 <=> (n < 0 \/ n >= len)
            /\ libResp.status # 404 =>
                   /\ libResp.status = 200
                   /\ libResp.prev_idx = (IF n > 0 THEN Idx(n - 1) ELSE Null)
                   /\ libResp.next_idx = (IF n < len - 1 THEN Idx(n + 1) ELSE Null)
                   /\ libResp.prev_idx = Null <=> n = 0
                   /\ libResp.next_idx = Null <=> n = len - 1
                   /\ \A x \in {libResp.prev_idx, libResp.next_idx} :
                          x # Null => (0 <= x.idx /\ x.idx < len)

\* the last chapter of a book of several chapters
C10_Witness ==
    /\ libResp.op = "read" /\ libResp.status = 200
    /\ libResp.chapter_index > 0
    /\ libResp.next_idx = Null /\ libResp.prev_idx # Null

----------------------------------------------------------------------------
(* The Auth Gate's claims *)

Gated == authResp.op = "auth" /\ authResp.path \notin LoginPaths

ValidToken(cookie, at) ==
    /\ cookie # NoCookie
    /\ cookie.key = ServerKey
    /\ at - cookie.ts <= 30 * 24 * 60 * 60

\* the handler runs exactly for a token that verifies and is not too old
GateIff == Gated => (authResp.ran <=> ValidToken(authResp.cookie, authResp.at))

\* the return target that the login page reads from the redirect
ReturnTarget(location) == QueryParam(UrlQuery(location), <<"next">>, <<"/">>)

RedirectsToLogin ==
    (Gated /\ ~authResp.ran) =>
        /\ authResp.status = 302
        /\ UrlPath(authResp.location) \in LoginPaths

CarriesTarget ==
    (Gated /\ ~authResp.ran) =>
        ReturnTarget(authResp.location) =
            authResp.path \o (IF authResp.query = <<>> THEN <<>>
                              ELSE <<"?">> \o authResp.query)

\* a request that is turned away changes nothing but its own response
TurnedAway ==
    (authResp' # authResp /\ authResp'.op = "auth" /\ ~authResp'.ran) =>
        UNCHANGED <<now, ticks, LOGIN_ATTEMPTS, failLog, loginResp, jar, libVars, hlVars>>

\* C2: for a request to any path but the login path the handler runs iff
\* the session token's signature verifies and its age is at most 30 days;
\* otherwise nothing changes and the answer is a 302 to the login page
\* whose return target is the original path plus query.
C2_AuthGate ==
    [](GateIff /\ RedirectsToLogin /\ CarriesTarget) /\ [][TurnedAway]_vars

\* the gate of C2 without the return target
GateWithoutTarget == [](GateIff /\ RedirectsToLogin) /\ [][TurnedAway]_vars

\* a token of exactly the session lifetime is accepted, an older one is not
GateAtLifetime ==
    /\ Gated /\ authResp.ran
    /\ authResp.at - authResp.cookie.ts = SESSION_DURATION
GateExpired ==
    /\ Gated /\ ~authResp.ran
    /\ authResp.cookie # NoCookie /\ authResp.cookie.key = ServerKey

----------------------------------------------------------------------------
(* The atomic save's claims *)

\* highlights.json is missing or holds a complete document
NeverTorn == hlFile = MissingFile \/ hlFile = [exists |-> TRUE, doc |-> hlFile.doc]

\* the file changes only by a save that succeeds, to the whole new document
ChangesWhole ==
    hlFile' # hlFile =>
        /\ hlSave # None
        /\ hlFile' = [exists |-> TRUE, doc |-> hlSave.doc]
        /\ hlResp'.status = 200

\* a save ends with 200 and the new document, or with 500 and the file as
\* it was
EndsWholeOrNot ==
    (hlSave # None /\ hlSave' = None) =>
        \/ hlResp'.status = 200 /\ hlFile' = [exists |-> TRUE, doc |-> hlSave.doc]
        \/ hlResp'.status = 500 /\ hlFile' = hlFile

\* C11: save(document) is atomic: in every state, in the middle of a save
\* and after a failed one too, highlights.json holds the complete previous
\* or the complete new document; a failed save answers 500 and leaves the
\* file as it was.
C11_AtomicSave == [](NeverTorn) /\ [][ChangesWhole /\ EndsWholeOrNot]_vars

\* a save failed in the middle of json.dump, over an existing document
C11_Witness ==
    /\ hlResp.status = 500 /\ hlSave = None
    /\ hlTemp.exists /\ hlTemp.text # <<>> /\ ~IsComplete(hlTemp.text)
    /\ hlFile.exists /\ hlFile.doc # EmptyDocument

\* a save in progress whose temp file is written and not yet renamed
C11_MidSave ==
    /\ hlSave # None /\ hlTemp.exists /\ IsComplete(hlTemp.text)
    /\ hlFile.exists /\ hlFile.doc # hlSave.doc

----------------------------------------------------------------------------
(* The note update's claims *)

HighlightOf(doc, id) ==
    LET p == CHOOSE h \in Hits(doc, id) : TRUE IN doc[p[1]].highlights[p[2]]

SameButNote(h, g) == [h EXCEPT !.note = ""] = [g EXCEPT !.note = ""]

\* the step in which a PUT, having read its body, writes and answers
UpdateOnlyNote ==
    \A r \in HlReqs :
        (hlReq[r] # None /\ hlReq'[r] = None) =>
            /\ hlResp'.status # 500
            /\ \A id \in AllIds(Doc) \ {hlReq[r].id} :
                   id \in AllIds(Doc') /\ HighlightOf(Doc', id) = HighlightOf(Doc, id)
            /\ hlReq[r].id \in AllIds(Doc) =>
                   /\ hlReq[r].id \in AllIds(Doc')
                   /\ SameButNote(HighlightOf(Doc', hlReq[r].id),
                                  HighlightOf(Doc, hlReq[r].id))

UpdateMissing ==
    (hlResp' # hlResp /\ hlResp'.op = "update" /\ hlResp'.status = 404) =>
        /\ hlResp'.id \notin AllIds(Doc)
        /\ hlFile' = hlFile

\* C12: PUT /api/highlights/{id} changes only the note of the highlight of
\* that id, whatever other highlight requests run between its lookup and
\* its write: no other highlight changes, no index error, the other fields
\* of the target stay; an id found nowhere answers 404 and changes nothing.
C12_UpdateOnlyNote == [][UpdateOnlyNote /\ UpdateMissing]_vars

\* what holds of the PUT when no request runs between lookup and write
UpdateUndisturbed ==
    \A r \in HlReqs :
        (/\ hlReq[r] # None /\ hlReq'[r] = None
         /\ hlReq[r].id \in AllIds(Doc)
         /\ get_highlight_by_id(Doc, hlReq[r].id).idx = hlReq[r].idx)
        => UpdateOnlyNote
UpdateOnlyNoteUndisturbed == [][UpdateUndisturbed /\ UpdateMissing]_vars

----------------------------------------------------------------------------
(* Lost updates *)

\* the index a waiting PUT holds is still the index of its highlight
Fresh(req, doc) ==
    req.id \in AllIds(doc) /\ get_highlight_by_id(doc, req.id).idx = req.idx

\* a create or a delete loads, changes and saves in one step: it keeps
\* every other highlight as the document holds it
KeepsOthers ==
    (hlResp' # hlResp /\ hlResp'.op \in {"create", "delete"} /\ hlResp'.status = 200) =>
        LET own == IF hlResp'.op = "create" THEN hlResp'.highlight.id ELSE hlResp'.id
        IN  /\ AllIds(Doc') \ {own} = AllIds(Doc) \ {own}
            /\ \A id \in AllIds(Doc) \ {own} : HighlightOf(Doc', id) = HighlightOf(Doc, id)

\* the index of a waiting PUT goes stale only by a DELETE that succeeds
StaleOnlyByDelete ==
    \A r \in HlReqs :
        (/\ hlReq[r] # None /\ hlReq'[r] = hlReq[r]
         /\ Fresh(hlReq[r], Doc) /\ ~Fresh(hlReq[r], Doc'))
        => hlResp'.op = "delete" /\ hlResp'.status = 200

\* a PUT that answers 200 has written its note to its highlight, unless its
\* index was stale
LostOnlyWhenStale ==
    \A r \in HlReqs :
        (/\ hlReq[r] # None /\ hlReq'[r] = None
         /\ hlResp'.status = 200 /\ hlResp'.body.has
         /\ Fresh(hlReq[r], Doc))
        => /\ hlResp'.highlight.id = hlReq[r].id
           /\ HighlightOf(Doc', hlReq[r].id).note = hlResp'.body.note

\* C17: two concurrent mutating highlight calls can both answer success
\* and leave a document without the effect of one of them (C17_Witness);
\* this happens to a PUT whose index a successful DELETE made stale, and in
\* no other way.
C17_LostUpdate == [][KeepsOthers /\ StaleOnlyByDelete /\ LostOnlyWhenStale]_vars

\* a PUT answered 200 for a note, the highlight it named is still in the
\* document without that note, and the note is on another highlight
C17_Witness ==
    /\ hlResp.op = "update" /\ hlResp.status = 200 /\ hlResp.body.has
    /\ hlResp.id \in AllIds(Doc)
    /\ HighlightOf(Doc, hlResp.id).note # hlResp.body.note
    /\ hlResp.highlight.id # hlResp.id
    /\ hlResp.highlight.note = hlResp.body.note

----------------------------------------------------------------------------
(* Upload cleanup *)

\* the step in which upload request r ends
Ends(r) == up[r] # None /\ up'[r] = None

TempRemoved == \A r \in UpReqs : Ends(r) => tempFiles'[up[r].temp_path] = Absent

FailureCleansUp ==
    \A r \in UpReqs :
        (Ends(r) /\ uploadResp'[r].status = 500) =>
            /\ ~DirExists(dirs', up[r].out_dir)
            /\ cache' = cache

\* no directory without a snapshot is left to answer a later upload with 409
NoLeftovers == \A d \in BookDirs : DirExists(dirs, d) => dirs[d].pkl # NoPkl

\* C13: when an upload that passed the checks has ended, its temp file is
\* gone whatever the outcome; after a failure (500) the output directory
\* does not exist, the cache was not cleared, and nothing is left that
\* would answer a later upload of the same file with 409.
C13_UploadCleanup == [](NoLeftovers) /\ [][TempRemoved /\ FailureCleansUp]_vars

\* an upload failed with a listing's entries in the cache
C13_Witness ==
    /\ uploadResp["p1"].status = 500 /\ uploadResp["p1"].filename = FileAEpub
    /\ up["p1"] = None /\ up["p2"] = None
    /\ cache # <<>>
    /\ ~DirExists(dirs, DirA)
    /\ tempFiles[temp_path_of(FileAEpub)] = Absent

\* an upload failed and the same file was then uploaded with success
C13_Retried ==
    /\ uploadResp["p1"].status = 500 /\ uploadResp["p1"].filename = FileAEpub
    /\ uploadResp["p2"].status = 200 /\ uploadResp["p2"].filename = FileAEpub
    /\ up["p1"] = None /\ up["p2"] = None
    /\ tempFiles[temp_path_of(FileAEpub)] = Absent

----------------------------------------------------------------------------
(* Image serving's claims *)

\* a file in the images directory of a directory of the library
InsideImages(resolved) ==
    /\ Len(resolved) = 3
    /\ resolved[1] \notin {DotDot, DotName, <<>>}
    /\ resolved[2] = ImagesName
    /\ resolved[3] \notin {DotDot, DotName, <<>>}

\* C14: whatever book_id and image_name the URL gives, ".." and "."
\* included, serve_image answers 404 unless the path it checks and serves
\* lies inside <library root>/<book directory>/images/.
C14_ImageInside ==
    libResp.op = "image" =>
        (libResp.status # 404 => InsideImages(Resolve(libResp.path)))

\* what does hold: the path never has more than the three components, and
\* neither book_id nor image_name brings a separator into it
ImageNoSeparator ==
    libResp.op = "image" =>
        /\ Len(libResp.path) = 3
        /\ \A i \in {1, 3} : Sep \notin Range(libResp.path[i])

\* the picture beside the library is served for book_id ".."
ImageOutside ==
    /\ libResp.op = "image" /\ libResp.status = 200
    /\ Resolve(libResp.path) = <<DotDot, ImagesName, Pic>>

----------------------------------------------------------------------------
(* The login redirect's claims *)

\* a path on this server: it begins with one "/", not with "//"
LocalPath(url) == StartsWith(url, <<"/">>) /\ ~StartsWith(url, <<"/", "/">>)

CookieOnlyOnSuccess ==
    loginResp.op = "login" =>
        (loginResp.cookie # NoCookie <=> (loginResp.status = 302 /\ loginResp.passwordOk))

\* C15: after a successful login the Location of the 302 is a path on this
\* server, whatever the next field held ("//host/path" and absolute URLs
\* become "/"), and a session cookie is set on the 302 only, never on a
\* 401 or a 429.
C15_SafeRedirect ==
    /\ CookieOnlyOnSuccess
    /\ (loginResp.op = "login" /\ loginResp.status = 302) => LocalPath(loginResp.location)

\* the login that is sent to another host
LoginSentAway ==
    /\ loginResp.op = "login" /\ loginResp.status = 302
    /\ loginResp.location = <<"/", "/", "host", "/", "path">>
    /\ jar # NoCookie

----------------------------------------------------------------------------
(* Cache coherence under tag updates *)

TagsReadAreStored ==
    /\ (libResp.op = "tags" /\ libResp.status = 200) =>
           /\ DirExists(dirs, libResp.book)
           /\ libResp.tags = StoredTags(libResp.book)
    /\ libResp.op = "list" =>
           \A i \in DOMAIN libResp.books :
               libResp.books[i].tags = StoredTags(libResp.books[i].id)

UpdateClearsCache ==
    (libResp' # libResp /\ libResp'.op = "set_tags" /\ libResp'.status = 200) =>
        /\ cache' = <<>>
        /\ dirs'[libResp'.book].pkl.tags = libResp'.tags

FailedUpdateKeeps ==
    (libResp' # libResp /\ libResp'.op = "set_tags" /\ libResp'.status = 500) =>
        dirs' = dirs

\* C16: after any sequence of tag updates the tags that GET
\* /api/books/{id}/tags and the library listing return are those of the
\* persisted snapshot; a successful update clears the whole cache, and an
\* update whose save fails (500) leaves what later reads return unchanged.
C16_TagCoherence ==
    [](TagsReadAreStored) /\ [][UpdateClearsCache /\ FailedUpdateKeeps]_vars

\* a read returns tags that no snapshot holds, after an update answered 500
TagsReadStale ==
    /\ libResp.op = "tags" /\ libResp.status = 200
    /\ libResp.tags # StoredTags(libResp.book)

====
